---------------------------- MODULE Spec2Model ----------------------------
(***************************************************************************)
(* Model of the request/response bridging core of human-chat-completions:  *)
(*   - FastAPIServer.chat_completions and FastAPIServer.stream_generator   *)
(*     (src/src/model/api_server.py), running on the event loop of the     *)
(*     listener thread;                                                    *)
(*   - ChatView.on_message_received, ChatView.set_message,                 *)
(*     ChatView._add_message and send_message (src/src/view/chat.py); the  *)
(*     last two run in the UI's handler threads;                           *)
(*   - the routes, retrieve_model and not_found_handler of FastAPIServer,  *)
(*     and CreateChatCompletionRequest.validate_capabilities               *)
(*     (src/src/model/api_model.py).                                       *)
(* Strings are sequences of one-character strings.  An Optional value is a *)
(* sequence of length 0 (None) or 1.                                       *)
(***************************************************************************)
EXTENDS Integers, Sequences, FiniteSets, TLC

\* ------------------------------------------------------------ bounds
NumRequests == 2      \* chat-completion requests a run may receive
NumSenders  == 2      \* UI handler threads that may run send_message at once
MaxSends    == 2      \* non-blank operator submissions in a run
MaxLen      == 3      \* longest answer given to stream_generator on its own
MaxClock    == 3      \* ticks the clock may advance in a run
TicksPerSecond == 2   \* resolution of the clock
MaxServers  == 3      \* FastAPIServer objects the chat view may construct
MaxThreads  == 2      \* Thread objects one server's start() may create
MaxCalls    == 3      \* calls of start(), and of stop(), counted per server

Requests == 1..NumRequests
Senders  == 1..NumSenders
NoReq    == 0         \* pending_future is None / nothing displayed
Servers  == 1..MaxServers
NoServer == 0         \* ChatView.api_server is None
NoThread == 0         \* FastAPIServer._thread is None

Chars == {"a", "b", " "}
Whitespace == {" "}

RECURSIVE StringsOfLen(_)
StringsOfLen(n) ==
    IF n = 0 THEN {<< >>}
    ELSE {Append(s, c) : s \in StringsOfLen(n - 1), c \in Chars}

RECURSIVE StringsUpTo(_)
StringsUpTo(n) ==
    IF n = 0 THEN StringsOfLen(0) ELSE StringsOfLen(n) \cup StringsUpTo(n - 1)

\* what the operator may have typed into input_field
OperatorTexts == {<< >>, <<" ">>, <<"a", "b">>, <<" ", "b">>}

\* Optional values
None == << >>
Some(x) == <<x>>

VARIABLES
    pc,              \* per request: where its handler is
    request,         \* per request: the parsed CreateChatCompletionRequest (Optional)
    futState,        \* per request: state of the future its handler created
    futVal,          \* per request: result stored in that future
    pending_future,  \* ChatView.pending_future: NoReq, or the request whose future it is
    result,          \* per request: value `await self.pending_future` returned
    frames,          \* per request: SSE frames its stream_generator has yielded
    messages_list,   \* ChatView.messages_list.controls
    input_field,     \* ChatView.input_field.value
    spc,             \* per sender thread: position inside send_message
    smsg,            \* per sender thread: the message passed to _add_message
    raised,          \* "none", or the state of the future on which set_result last
                     \* raised InvalidStateError out of send_message
    sends,           \* number of non-blank submissions so far
    awake,           \* the listener's event loop is running callbacks (not in select)
    ready,           \* handlers whose wake-up sits in the loop's ready queue
    shown,           \* history: the request whose conversation set_message displayed last
    inputFor,        \* history: the request displayed when input_field was typed
    sfor,            \* history, per sender: inputFor of the text it is delivering
    sat,             \* history, per sender: the request displayed when it was submitted
    answerFor,       \* history, per request: sfor of the submission that resolved it
    answerAt,        \* history, per request: sat of the submission that resolved it
    staleAtStart,    \* history, per request: the requests already cancelled when it began
    http,            \* per request: the HTTP request as received (Optional)
    response,        \* per request: the response returned to the client (Optional)
    invoked,         \* history, per request: the message lists on_message_received got
    clock,           \* time.time(), counted in ticks of 1/TicksPerSecond second
    chunk_id,        \* per request: chunk_id of its stream_generator (Optional)
    made,            \* number of FastAPIServer objects constructed so far
    thread,          \* per server: FastAPIServer._thread, NoThread or an index of threads
    threads,         \* per server: the state of every Thread its start() created
    started,         \* per server: uvicorn's Server.started
    should_exit,     \* per server: uvicorn's Server.should_exit
    api_server,      \* ChatView.api_server: NoServer, or a server
    listen_button,   \* ChatView.listen_button.text
    disabled,        \* ChatView.listen_button.disabled
    joining,         \* the server whose stop() is blocked in join, or NoServer
    warned,          \* per server: stop() has logged that the thread did not exit
    escaped,         \* "none", or the exception that left stop()
    start_calls,     \* history, per server: calls of start() so far
    stop_calls       \* history, per server: calls of stop() so far

vars == << pc, request, futState, futVal, pending_future, result, frames,
           messages_list, input_field, spc, smsg, raised, sends,
           awake, ready, shown, inputFor, sfor, sat, answerFor, answerAt,
           staleAtStart, http, response, invoked, clock, chunk_id,
           made, thread, threads, started, should_exit, api_server,
           listen_button, disabled, joining, warned, escaped,
           start_calls, stop_calls >>

\* the state of the rendezvous: requests, futures, the chat view's widgets
chatVars == << pc, request, futState, futVal, pending_future, result, frames,
               messages_list, input_field, spc, smsg, raised, sends,
               awake, ready, shown, inputFor, sfor, sat, answerFor, answerAt,
               staleAtStart, http, response, invoked, chunk_id >>

\* the state of the servers' lifecycle
serverVars == << made, thread, threads, started, should_exit, api_server,
                 listen_button, disabled, joining, warned, escaped,
                 start_calls, stop_calls >>


\* ------------------------------------------------------------ pure helpers

\* str.strip() of send_message's test: leading and trailing whitespace removed
RECURSIVE LStrip(_)
LStrip(s) ==
    IF s # << >> /\ Head(s) \in Whitespace THEN LStrip(Tail(s)) ELSE s

RECURSIVE RStrip(_)
RStrip(s) ==
    IF s # << >> /\ s[Len(s)] \in Whitespace
    THEN RStrip(SubSeq(s, 1, Len(s) - 1)) ELSE s

Strip(s) == RStrip(LStrip(s))

\* model_dump_json(exclude_none=True): only the fields that are not None are written
ExcludeNone(fields) ==
    [k \in {x \in DOMAIN fields : fields[x] # None} |-> fields[k][1]]

\* the Future API the code uses
FutureDone(st) == st \in {"resolved", "cancelled"}

\* ------------------------------------------------------------ request messages

Roles == {"system", "developer", "user", "assistant", "tool", "function"}

\* a request message: its role, its content, and whether the content is a list of
\* content parts (user messages only) rather than a string
Msg(role, content, parts) == [role |-> role, content |-> content, parts |-> parts]

UserOnly == << Msg("user", <<"a">>, FALSE) >>

Mixed ==
    << Msg("system", <<"b">>, FALSE), Msg("tool", <<"a">>, FALSE),
       Msg("user", << >>, FALSE) >>

\* the message lists a request may carry
RequestMessages == {UserOnly, Mixed}

\* a conversation with every role, with empty contents and with content parts
AllRoles ==
    << Msg("developer", <<"a">>, FALSE), Msg("assistant", << >>, FALSE),
       Msg("function", <<"b">>, FALSE), Msg("user", <<"text">>, TRUE),
       Msg("assistant", <<"b">>, FALSE), Msg("user", <<"a">>, FALSE),
       Msg("system", << >>, FALSE), Msg("tool", <<"b">>, FALSE) >>

\* variant for C30: every message of the request is displayed
DisplayedMessagesAll(ms) == ms

\* the loop of on_message_received that selects what is displayed
RECURSIVE DisplayedMessages(_)
DisplayedMessages(ms) ==
    IF ms = << >> THEN << >>
    ELSE LET m == Head(ms)
             rest == DisplayedMessages(Tail(ms))
         IN  IF m.content = << >> THEN rest
             ELSE IF m.role \in {"system", "developer"} THEN <<m>> \o rest
             ELSE IF m.role = "user"
                  THEN (IF ~m.parts THEN <<m>> \o rest ELSE rest)
             ELSE IF m.role = "assistant" THEN <<m>> \o rest
             ELSE rest

\* one row of messages_list
Bubble(text, is_user) == [text |-> text, is_user |-> is_user]

\* ChatView.set_message: the list is cleared and one bubble per message added
set_message(ms) ==
    [i \in 1..Len(ms) |-> Bubble(ms[i].content, ms[i].role = "user")]

\* ------------------------------------------------------------ stream_generator

\* variant for C9: tokens = list(content.strip())
TokensOfStripped(content) ==
    [i \in 1..Len(Strip(content)) |-> <<Strip(content)[i]>>]

\* tokens = list(content)
Tokens(content) == [i \in 1..Len(content) |-> <<content[i]>>]

\* variant for C11: role="assistant" on every content chunk
ContentChunkRoleAlways(i, token) ==
    [kind   |-> "json",
     object |-> "chat.completion.chunk",
     choice |-> ExcludeNone(
         [index         |-> Some(0),
          delta         |-> Some(ExcludeNone(
                               [role    |-> Some("assistant"),
                                content |-> Some(token),
                                refusal |-> None])),
          finish_reason |-> None,
          logprobs      |-> None])]

\* the chunk yielded for enumerate index i (0-based) and its token
ContentChunk(i, token) ==
    [kind   |-> "json",
     object |-> "chat.completion.chunk",
     choice |-> ExcludeNone(
         [index         |-> Some(0),
          delta         |-> Some(ExcludeNone(
                               [role    |-> IF i = 0 THEN Some("assistant") ELSE None,
                                content |-> Some(token),
                                refusal |-> None])),
          finish_reason |-> None,
          logprobs      |-> None])]

\* the chunk yielded after the loop
FinalChunk ==
    [kind   |-> "json",
     object |-> "chat.completion.chunk",
     choice |-> ExcludeNone(
         [index         |-> Some(0),
          delta         |-> Some(ExcludeNone(
                               [role |-> None, content |-> None, refusal |-> None])),
          finish_reason |-> Some("stop"),
          logprobs      |-> None])]

\* the literal line that ends the stream
DoneFrame == [kind |-> "literal", text |-> "[DONE]"]

\* variant for C10: the last two yields swapped
StreamItemDoneFirst(content, n) ==
    LET tokens == Tokens(content)
    IN  IF n < Len(tokens) THEN ContentChunk(n, tokens[n + 1])
        ELSE IF n = Len(tokens) THEN DoneFrame
        ELSE FinalChunk

\* the n-th item (0-based) stream_generator(content) yields; it yields Len(content) + 2
StreamItem(content, n) ==
    LET tokens == Tokens(content)
    IN  IF n < Len(tokens) THEN ContentChunk(n, tokens[n + 1])
        ELSE IF n = Len(tokens) THEN FinalChunk
        ELSE DoneFrame

StreamLength(content) == Len(Tokens(content)) + 2


\* ------------------------------------------------------------ request bodies

\* Enumerated strings (field names, model ids, roles, part types) are TLA+ strings.
\* A JSON body is a function from the field names it contains to their values; an
\* Optional field holds None for JSON null.  The content of a user message given
\* as a list of content parts is the sequence of the parts' types (parts = TRUE).

MaxN == 3             \* n and top_logprobs of a body lie in -MaxN..MaxN
MaxSegs == 3          \* longest request path, in segments

\* the declared fields of CreateChatCompletionRequest and their defaults
FieldDefaults ==
    [stream          |-> Some(FALSE),
     user            |-> None,
     store           |-> Some(FALSE),
     modalities      |-> None,
     response_format |-> None,
     tool_choice     |-> None,
     logprobs        |-> Some(FALSE),
     top_logprobs    |-> None,
     n               |-> Some(1)]

RequiredFields == {"messages", "model"}

\* pydantic builds the request only when the required fields are there
Parses(raw) == RequiredFields \subseteq DOMAIN raw

\* the parsed request: declared fields only (extra='ignore'), defaults for the
\* fields the body leaves out
Parsed(raw) ==
    [f \in RequiredFields \cup DOMAIN FieldDefaults |->
        IF f \in DOMAIN raw THEN raw[f] ELSE FieldDefaults[f]]

\* tool_choice: Union[str, Dict[str, Any]]; a dict is its set of <<key, value>>
StrChoice(text) == [kind |-> "str", text |-> text, entries |-> {}]
DictChoice(entries) == [kind |-> "dict", text |-> "", entries |-> entries]

\* dict.get(key)
DictGet(entries, key) ==
    IF \E e \in entries : e[1] = key
    THEN Some((CHOOSE e \in entries : e[1] = key)[2])
    ELSE None

\* ------------------------------------------------------------ validate_capabilities

\* The messages of the ValueErrors, as the sequence of their words.
ErrorPrefix == <<"Human", "Chat", "Completions", "API", "does", "not", "support">>

ModalityError(modality) ==
    ErrorPrefix \o <<"output", "modality", "'", modality, "'.",
                     "Only", "'text'", "is", "supported.">>

StoreError ==
    ErrorPrefix \o <<"'store=True'.", "Conversations", "are", "not", "persisted.">>

ResponseFormatError(type) ==
    ErrorPrefix \o <<"response_format", "'", type, "'.",
                     "Only", "'text'", "is", "supported.">>

ToolRequiredError == ErrorPrefix \o <<"tool_choice", "'required'.">>

ToolSelectionError == ErrorPrefix \o <<"specific", "tool", "selection.">>

\* variant for C13: the audio check raises a message that names nothing
InputAudioErrorGeneric == ErrorPrefix \o <<"this", "request.">>

InputAudioError == ErrorPrefix \o <<"input", "audio", "messages.">>

LogprobsError ==
    ErrorPrefix \o <<"'logprobs'.", "Humans", "cannot", "calculate", "token",
                     "probabilities.">>

NError ==
    ErrorPrefix \o <<"'n", ">", "1'.", "Humans", "can", "only", "provide", "a",
                     "single", "response.">>

\* truth value of an Optional[bool]
Truthy(opt) == opt # None /\ opt[1]

\* 1. the first modality that is not "text" (Optional)
RECURSIVE FirstNonText(_)
FirstNonText(modalities) ==
    IF modalities = << >> THEN None
    ELSE IF Head(modalities) # "text" THEN Some(Head(modalities))
    ELSE FirstNonText(Tail(modalities))

\* 4. the error of the tool_choice check (Optional)
ToolChoiceError(tool_choice) ==
    IF tool_choice = None THEN None
    ELSE LET tc == tool_choice[1]
         IN  IF tc.kind = "str"
             THEN (IF tc.text = "required" THEN Some(ToolRequiredError) ELSE None)
             ELSE IF tc.entries # {} /\ DictGet(tc.entries, "type") = Some("function")
                  THEN Some(ToolSelectionError)
                  ELSE None

\* 5. some user message has a list content with an input_audio part
HasInputAudio(messages) ==
    \E i \in 1..Len(messages) :
        /\ messages[i].role = "user"
        /\ messages[i].parts
        /\ \E j \in 1..Len(messages[i].content) :
              messages[i].content[j] = "input_audio"

\* 6. `self.logprobs or self.top_logprobs`
WantsLogprobs(logprobs, top_logprobs) ==
    Truthy(logprobs) \/ (top_logprobs # None /\ top_logprobs[1] # 0)

\* variant for C15: `self.n is not None and self.n != 1`
TooManyChoicesNotOne(n) == n # None /\ n[1] # 1

\* 7. `self.n is not None and self.n > 1`
TooManyChoices(n) == n # None /\ n[1] > 1

\* the validator: None when it returns self, else the message of the ValueError
validate_capabilities(req) ==
    LET badModality ==
            IF req.modalities = None THEN None ELSE FirstNonText(req.modalities[1])
    IN  IF badModality # None THEN Some(ModalityError(badModality[1]))
        ELSE IF Truthy(req.store) THEN Some(StoreError)
        ELSE IF /\ req.response_format # None
                /\ req.response_format[1] \in {"json_object", "json_schema"}
             THEN Some(ResponseFormatError(req.response_format[1]))
        ELSE IF ToolChoiceError(req.tool_choice) # None
             THEN ToolChoiceError(req.tool_choice)
        ELSE IF HasInputAudio(req.messages) THEN Some(InputAudioError)
        ELSE IF WantsLogprobs(req.logprobs, req.top_logprobs) THEN Some(LogprobsError)
        ELSE IF TooManyChoices(req.n) THEN Some(NError)
        ELSE None


\* ------------------------------------------------------------ routes

\* A path is the sequence of its segments after the leading slash: "/" is <<"">>,
\* "/v1/models" is <<"v1", "models">>, "/v1/models/" is <<"v1", "models", "">>.
Param == "{model_id}"

Route(path, methods, endpoint) ==
    [path |-> path, methods |-> methods, endpoint |-> endpoint]

\* the routes in registration order: those FastAPI() adds for its documentation,
\* then those of FastAPIServer.__init__
Routes ==
    << Route(<<"openapi.json">>, {"GET", "HEAD"}, "docs"),
       Route(<<"docs">>, {"GET", "HEAD"}, "docs"),
       Route(<<"docs", "oauth2-redirect">>, {"GET", "HEAD"}, "docs"),
       Route(<<"redoc">>, {"GET", "HEAD"}, "docs"),
       Route(<<"">>, {"GET", "POST", "PUT", "DELETE", "PATCH", "HEAD"}, "root"),
       Route(<<"v1", "chat", "completions">>, {"POST"}, "chat_completions"),
       Route(<<"chat", "completions">>, {"POST"}, "chat_completions"),
       Route(<<"v1", "models">>, {"GET"}, "list_models"),
       Route(<<"v1", "models", Param>>, {"GET"}, "retrieve_model"),
       Route(<<"api", "tags">>, {"GET"}, "list_models_ollama") >>

\* a path parameter matches one non-empty segment
SegMatches(pattern, seg) == IF pattern = Param THEN seg # "" ELSE pattern = seg

PathMatches(pattern, path) ==
    /\ Len(pattern) = Len(path)
    /\ \A i \in 1..Len(path) : SegMatches(pattern[i], path[i])

\* the routes whose path matches, whatever their methods
PathRoutes(path) == {i \in 1..Len(Routes) : PathMatches(Routes[i].path, path)}

\* the routes that match path and method
FullRoutes(method, path) == {i \in PathRoutes(path) : method \in Routes[i].methods}

\* str.rstrip("/")
RECURSIVE RStripSlash(_)
RStripSlash(path) ==
    IF path # << >> /\ path[Len(path)] = ""
    THEN RStripSlash(SubSeq(path, 1, Len(path) - 1)) ELSE path

\* redirect_slashes: the path with its trailing slash removed, or with one added
RedirectPath(path) ==
    IF path[Len(path)] = "" THEN RStripSlash(path) ELSE Append(path, "")

\* The router: the first route matching path and method; else a route matching
\* the path alone answers 405; else a route matching the path with the trailing
\* slash toggled redirects; else 404 is raised.
Dispatch(method, path) ==
    IF FullRoutes(method, path) # {}
    THEN Routes[CHOOSE i \in FullRoutes(method, path) :
                   \A j \in FullRoutes(method, path) : i <= j].endpoint
    ELSE IF PathRoutes(path) # {} THEN "method_not_allowed"
    ELSE IF path # <<"">> /\ PathRoutes(RedirectPath(path)) # {} THEN "redirect"
    ELSE "not_found"

\* ------------------------------------------------------------ responses

Response(status, kind, body) == [status |-> status, kind |-> kind, body |-> body]

\* variant for C20: 404 answered with the framework's default body
not_found_handlerDefault == Response(404, "json", [detail |-> "Not Found"])

not_found_handler ==
    Response(404, "json",
        [error   |-> "Not Found",
         message |-> "Human Chat Completions supports only POST /v1/chat/completions endpoint."])

\* An HTTPException leaving the router or a handler: add_exception_handler(404, ...)
\* makes not_found_handler answer every one whose status is 404; the others get the
\* framework's {"detail": ...}.
HandleHTTPException(status, detail) ==
    IF status = 404 THEN not_found_handler
    ELSE Response(status, "json", [detail |-> detail])

\* any other exception out of a handler
ServerError == Response(500, "text", [text |-> "Internal Server Error"])

\* the request body is rejected by pydantic before the handler is called
ValidationFailure(type, msg) ==
    Response(422, "json", [detail |-> << [type |-> type, msg |-> msg] >>])

CompletionUsage ==
    [completion_tokens |-> 0,
     prompt_tokens     |-> 0,
     total_tokens      |-> 0,
     completion_tokens_details |->
         [reasoning_tokens |-> 0, audio_tokens |-> 0,
          accepted_prediction_tokens |-> 0, rejected_prediction_tokens |-> 0],
     prompt_tokens_details |-> [audio_tokens |-> 0, cached_tokens |-> 0]]

\* int(time.time()): the clock's reading truncated to whole seconds
IntTime(t) == t \div TicksPerSecond

\* f"chatcmpl-{int(time.time())}"
ChatId(t) == <<"chatcmpl-", IntTime(t)>>

\* variant for C12: the model field is the backend's own id
CreateChatCompletionResponseOwnModel(model_id, response_content) ==
    Response(200, "json",
        [id      |-> ChatId(clock),
         object  |-> "chat.completion",
         created |-> IntTime(clock),
         model   |-> "human",
         system_fingerprint |-> Some("fp_human_backend"),
         choices |-> << [index         |-> 0,
                         message       |-> [role    |-> "assistant",
                                            content |-> Some(response_content),
                                            refusal |-> None],
                         finish_reason |-> "stop",
                         logprobs      |-> None] >>,
         usage   |-> CompletionUsage])

\* the body chat_completions returns when the request does not stream
CreateChatCompletionResponse(model_id, response_content) ==
    Response(200, "json",
        [id      |-> ChatId(clock),
         object  |-> "chat.completion",
         created |-> IntTime(clock),
         model   |-> model_id,
         system_fingerprint |-> Some("fp_human_backend"),
         choices |-> << [index         |-> 0,
                         message       |-> [role    |-> "assistant",
                                            content |-> Some(response_content),
                                            refusal |-> None],
                         finish_reason |-> "stop",
                         logprobs      |-> None] >>,
         usage   |-> CompletionUsage])

\* what chat_completions returns when the request streams; the frames follow
StreamingResponse(model_id) ==
    Response(200, "event-stream", [model |-> model_id])

\* Model(id="human", created=int(self.launch_time), owned_by="human-backend")
HumanModel ==
    [id |-> "human", created |-> "int(launch_time)", owned_by |-> "human-backend"]

\* `model_id == m` for a str and a Model: neither type compares equal to the other
StrEqualsModel(model_id, m) == FALSE

ModelNotFoundDetail(model_id) ==
    [error |-> [message |-> <<"The model '", model_id, "' does not exist">>,
                type    |-> "invalid_request_error",
                param   |-> "model",
                code    |-> "model_not_found"]]

\* retrieve_model.  allowed_models is a set literal holding a Model: building it
\* hashes the Model, which raises TypeError unless the class is hashable; the
\* membership test compares the str with the set's Models; the return subscripts
\* the set, which raises TypeError.
retrieve_model(model_id, hashable) ==
    LET allowed_models == {HumanModel}
    IN  IF ~hashable THEN ServerError
        ELSE IF ~(\E m \in allowed_models : StrEqualsModel(model_id, m))
             THEN HandleHTTPException(404, ModelNotFoundDetail(model_id))
             ELSE ServerError

\* an HTTP request: method, path and JSON body (the empty function when it has none)
Http(method, path, body) == [method |-> method, path |-> path, body |-> body]

\* variant for C16: the handler is called for every body that parses
AcceptedUnvalidated(req) ==
    /\ Dispatch(req.method, req.path) = "chat_completions"
    /\ Parses(req.body)

\* the request is routed to chat_completions and its body passes validation, so
\* the handler is called
Accepted(req) ==
    /\ Dispatch(req.method, req.path) = "chat_completions"
    /\ Parses(req.body)
    /\ validate_capabilities(Parsed(req.body)) = None

\* the response to a request that does not reach chat_completions
ImmediateResponse(req, hashable) ==
    LET endpoint == Dispatch(req.method, req.path)
    IN  CASE endpoint = "chat_completions" ->
                 IF ~Parses(req.body)
                 THEN ValidationFailure("missing", <<"Field", "required">>)
                 ELSE ValidationFailure("value_error",
                          <<"Value", "error,">>
                              \o validate_capabilities(Parsed(req.body))[1])
          [] endpoint = "root" ->
                 Response(200, "json", [message |-> "Human Chat Completions listening"])
          [] endpoint = "list_models" ->
                 Response(200, "json", [data |-> <<HumanModel>>])
          [] endpoint = "retrieve_model" -> retrieve_model(req.path[3], hashable)
          [] endpoint = "list_models_ollama" ->
                 Response(200, "json",
                     [models |-> << [name |-> "human:latest",
                                     model |-> "human:latest"] >>])
          [] endpoint = "docs" -> Response(200, "text", [text |-> "documentation"])
          [] endpoint = "method_not_allowed" ->
                 HandleHTTPException(405, "Method Not Allowed")
          [] endpoint = "redirect" ->
                 Response(307, "redirect", [location |-> RedirectPath(req.path)])
          [] endpoint = "not_found" -> HandleHTTPException(404, "Not Found")


\* ------------------------------------------------------------ initial state

ChatPaths == {<<"v1", "chat", "completions">>, <<"chat", "completions">>}

Models == {"human", "gpt"}

\* the chat requests a client may post: each message list with and without
\* streaming, over both paths and model ids
ChatRequests ==
    { Http("POST", <<"v1", "chat", "completions">>,
           [messages |-> UserOnly, model |-> "human"]),
      Http("POST", <<"chat", "completions">>,
           [messages |-> UserOnly, model |-> "gpt", stream |-> Some(TRUE)]),
      Http("POST", <<"chat", "completions">>,
           [messages |-> Mixed, model |-> "gpt", stream |-> Some(FALSE)]),
      Http("POST", <<"v1", "chat", "completions">>,
           [messages |-> Mixed, model |-> "human", stream |-> Some(TRUE),
            n |-> Some(1)]) }

\* the state of the lifecycle when n servers have been constructed and none of
\* them was started
Unstarted(n) ==
    /\ made = n
    /\ thread = [i \in Servers |-> NoThread]
    /\ threads = [i \in Servers |-> << >>]
    /\ started = [i \in Servers |-> FALSE]
    /\ should_exit = [i \in Servers |-> FALSE]
    /\ api_server = NoServer
    /\ listen_button = "STOPPED"
    /\ disabled = FALSE
    /\ joining = NoServer
    /\ warned = [i \in Servers |-> FALSE]
    /\ escaped = "none"
    /\ start_calls = [i \in Servers |-> 0]
    /\ stop_calls = [i \in Servers |-> 0]

\* the state of the lifecycle once the operator has switched the first server on
\* and its listener serves requests
Listening ==
    /\ made = 1
    /\ thread = [i \in Servers |-> IF i = 1 THEN 1 ELSE NoThread]
    /\ threads = [i \in Servers |-> IF i = 1 THEN <<"serving">> ELSE << >>]
    /\ started = [i \in Servers |-> i = 1]
    /\ should_exit = [i \in Servers |-> FALSE]
    /\ api_server = 1
    /\ listen_button = "RUNNING"
    /\ disabled = FALSE
    /\ joining = NoServer
    /\ warned = [i \in Servers |-> FALSE]
    /\ escaped = "none"
    /\ start_calls = [i \in Servers |-> IF i = 1 THEN 1 ELSE 0]
    /\ stop_calls = [i \in Servers |-> 0]

\* the chat view and the requests before anything has happened
ChatInit ==
    /\ pc = [r \in Requests |-> "idle"]
    /\ request = [r \in Requests |-> None]
    /\ futState = [r \in Requests |-> "none"]
    /\ futVal = [r \in Requests |-> None]
    /\ pending_future = NoReq
    /\ result = [r \in Requests |-> None]
    /\ frames = [r \in Requests |-> << >>]
    /\ messages_list = << >>
    /\ input_field = << >>
    /\ spc = [t \in Senders |-> "idle"]
    /\ smsg = [t \in Senders |-> << >>]
    /\ raised = "none"
    /\ sends = 0
    /\ awake = FALSE
    /\ ready = {}
    /\ shown = NoReq
    /\ inputFor = NoReq
    /\ sfor = [t \in Senders |-> NoReq]
    /\ answerFor = [r \in Requests |-> NoReq]
    /\ sat = [t \in Senders |-> NoReq]
    /\ answerAt = [r \in Requests |-> NoReq]
    /\ staleAtStart = [r \in Requests |-> {}]
    /\ http = [r \in Requests |-> None]
    /\ response = [r \in Requests |-> None]
    /\ invoked = [r \in Requests |-> << >>]
    /\ chunk_id = [r \in Requests |-> None]
    /\ clock = 0

Init == ChatInit /\ Listening

\* ------------------------------------------------------------ listener thread

\* A client posts a chat-completion request; the connection wakes the event loop.
Arrive(r) ==
    /\ pc[r] = "idle"
    /\ \E req \in ChatRequests : http' = [http EXCEPT ![r] = Some(req)]
    /\ pc' = [pc EXCEPT ![r] = "arrived"]
    /\ awake' = TRUE
    /\ UNCHANGED << request, futState, futVal, pending_future, result, frames,
                    messages_list, input_field, spc, smsg, raised, sends, ready,
                    shown, inputFor, sfor, answerFor, sat, answerAt, staleAtStart,
                    response, invoked, clock,
                    chunk_id, serverVars >>

\* variant for C17: the collaborator is handed the last message only
on_message_receivedLastOnly(r, messages) ==
    /\ invoked' = [invoked EXCEPT ![r] =
                      Append(@, SubSeq(messages, Len(messages), Len(messages)))]
    /\ messages_list' = set_message(DisplayedMessages(messages))
    /\ pending_future' = r
    /\ futState' = [futState EXCEPT ![r] = "pending"]
    /\ shown' = r

\* on_message_received up to its await: the display is replaced, a new future is
\* created and stored in pending_future, and the handler suspends on it.
on_message_received(r, messages) ==
    /\ invoked' = [invoked EXCEPT ![r] = Append(@, messages)]
    /\ messages_list' = set_message(DisplayedMessages(messages))
    /\ pending_future' = r
    /\ futState' = [futState EXCEPT ![r] = "pending"]
    /\ shown' = r

\* The request is routed to chat_completions, its body is parsed and validated,
\* and the handler runs on the loop until it suspends in on_message_received.
chat_completions(r) ==
    /\ awake
    /\ pc[r] = "arrived"
    /\ Accepted(http[r][1])
    /\ request' = [request EXCEPT ![r] = Some(Parsed(http[r][1].body))]
    /\ on_message_received(r, Parsed(http[r][1].body).messages)
    /\ pc' = [pc EXCEPT ![r] = "awaiting"]
    /\ staleAtStart' =
          [staleAtStart EXCEPT ![r] = {a \in Requests : pc[a] = "cancelled"}]
    /\ UNCHANGED << futVal, result, frames, input_field, spc, smsg,
                    raised, sends, awake, ready, inputFor, sfor, answerFor, sat,
                    answerAt, http, response, clock,
                    chunk_id, serverVars >>

\* A request that is not handed to chat_completions is answered at once: by the
\* router, by request validation, or by one of the handlers that do not suspend.
Respond(r) ==
    /\ awake
    /\ pc[r] = "arrived"
    /\ ~Accepted(http[r][1])
    /\ \E hashable \in BOOLEAN :
          response' = [response EXCEPT ![r] =
                          Some(ImmediateResponse(http[r][1], hashable))]
    /\ pc' = [pc EXCEPT ![r] = "done"]
    /\ UNCHANGED << request, futState, futVal, pending_future, result, frames,
                    messages_list, input_field, spc, smsg, raised, sends, awake,
                    ready, shown, inputFor, sfor, answerFor, sat, answerAt,
                    staleAtStart, http, invoked, clock,
                    chunk_id, serverVars >>

\* The loop runs the wake-up of a handler whose future was resolved: the await
\* returns the future's result and chat_completions goes on to build its response.
Resume(r) ==
    /\ awake
    /\ r \in ready
    /\ pc[r] = "awaiting"
    /\ futState[r] = "resolved"
    /\ result' = [result EXCEPT ![r] = futVal[r]]
    /\ ready' = ready \ {r}
    /\ pc' = [pc EXCEPT ![r] =
                 IF Truthy(request[r][1].stream) THEN "streaming" ELSE "done"]
    /\ response' = [response EXCEPT ![r] =
          IF Truthy(request[r][1].stream)
          THEN Some(StreamingResponse(request[r][1].model))
          ELSE Some(CreateChatCompletionResponse(request[r][1].model, futVal[r][1]))]
    /\ UNCHANGED << request, futState, futVal, pending_future, frames, messages_list,
                    input_field, spc, smsg, raised, sends, awake, shown,
                    inputFor, sfor, answerFor, sat, answerAt, staleAtStart,
                    http, invoked, clock,
                    chunk_id, serverVars >>

\* Task.cancel() on a handler suspended in `await self.pending_future`: the awaited
\* future is cancelled unless it is already done, and the handler ends with
\* CancelledError either way.
\* variant for C8: the handler ends but the future it awaited is left as it was
TaskCancelKeepsFuture(st) == st

TaskCancel(st) == IF FutureDone(st) THEN st ELSE "cancelled"

Cancel(r) ==
    /\ pc[r] = "awaiting"
    /\ futState' = [futState EXCEPT ![r] = TaskCancel(futState[r])]
    /\ pc' = [pc EXCEPT ![r] = "cancelled"]
    /\ ready' = ready \ {r}
    /\ awake' = TRUE
    /\ UNCHANGED << request, futVal, pending_future, result, frames, messages_list,
                    input_field, spc, smsg, raised, sends, shown, inputFor,
                    sfor, answerFor, sat, answerAt, staleAtStart, http, response,
                    invoked, clock,
                    chunk_id, serverVars >>

\* variant for C25: the generator reads the answer stored last instead of the
\* one it was given
StreamContentLatest(r) ==
    IF futVal[pending_future] # None THEN futVal[pending_future][1] ELSE result[r][1]

\* the response_content stream_generator was called with: the awaited result
StreamContent(r) == result[r][1]

\* stream_generator yields its next item (its own sleep timer wakes the loop); it
\* computes chunk_id when it starts to run.
StreamStep(r) ==
    /\ pc[r] = "streaming"
    /\ LET n == Len(frames[r])
           content == StreamContent(r)
       IN  /\ chunk_id' = IF n = 0 THEN [chunk_id EXCEPT ![r] = Some(ChatId(clock))]
                        ELSE chunk_id
           /\ frames' = [frames EXCEPT ![r] = Append(@, StreamItem(content, n))]
           /\ pc' = [pc EXCEPT ![r] =
                        IF n + 1 = StreamLength(content) THEN "done" ELSE "streaming"]
    /\ awake' = TRUE
    /\ UNCHANGED << request, futState, futVal, pending_future, result, messages_list,
                    input_field, spc, smsg, raised, sends, ready, shown,
                    inputFor, sfor, answerFor, sat, answerAt, staleAtStart,
                    http, response, invoked, clock,
                    serverVars >>

\* The loop has nothing left to run and blocks in its selector.
LoopSleep ==
    /\ awake
    /\ ready = {}
    /\ \A r \in Requests : pc[r] # "arrived"
    /\ awake' = FALSE
    /\ UNCHANGED << pc, request, futState, futVal, pending_future, result, frames,
                    messages_list, input_field, spc, smsg, raised, sends,
                    ready, shown, inputFor, sfor, answerFor, sat, answerAt,
                    staleAtStart, http, response, invoked, clock,
                    chunk_id, serverVars >>

\* Some event unrelated to the pending answer (a timer of the server's main loop,
\* traffic on another connection) makes the selector return.
LoopEvent ==
    /\ ~awake
    /\ awake' = TRUE
    /\ UNCHANGED << pc, request, futState, futVal, pending_future, result, frames,
                    messages_list, input_field, spc, smsg, raised, sends,
                    ready, shown, inputFor, sfor, answerFor, sat, answerAt,
                    staleAtStart, http, response, invoked, clock,
                    chunk_id, serverVars >>


\* ------------------------------------------------------------ UI threads

\* The operator edits the input field while reading the displayed conversation.
Type(v) ==
    /\ input_field' = v
    /\ inputFor' = shown
    /\ UNCHANGED << pc, request, futState, futVal, pending_future, result, frames,
                    messages_list, spc, smsg, raised, sends, awake, ready,
                    shown, sfor, answerFor, sat, answerAt, staleAtStart,
                    http, response, invoked, clock,
                    chunk_id, serverVars >>

\* variant for C28: a future that is done still takes the submission
DeliverableWhenDone(slot, st) == slot # NoReq

\* the test at the top of send_message: nothing but whitespace was typed
Blank(s) == Strip(s) = << >>

\* the test of _add_message before it calls set_result
Deliverable(slot, st) == slot # NoReq /\ ~FutureDone(st[slot])

\* send_message from its start to the test of _add_message, with its two reads
\* of the input field taken as one: blank input returns at once; otherwise the bubble is added and pending_future is tested.  When the test
\* fails, _add_message returns and send_message clears the input field.
SendCheck(t) ==
    /\ spc[t] = "idle"
    /\ IF Blank(input_field)
       THEN UNCHANGED << messages_list, input_field, spc, smsg, sends, sfor, sat >>
       ELSE /\ sends < MaxSends
            /\ sends' = sends + 1
            /\ messages_list' = Append(messages_list, Bubble(input_field, FALSE))
            /\ IF Deliverable(pending_future, futState)
               THEN /\ spc' = [spc EXCEPT ![t] = "set"]
                    /\ smsg' = [smsg EXCEPT ![t] = input_field]
                    /\ sfor' = [sfor EXCEPT ![t] = inputFor]
                    /\ sat' = [sat EXCEPT ![t] = shown]
                    /\ UNCHANGED input_field
               ELSE /\ input_field' = << >>
                    /\ UNCHANGED << spc, smsg, sfor, sat >>
    /\ UNCHANGED << pc, request, futState, futVal, pending_future, result, frames,
                    raised, awake, ready, shown, inputFor, answerFor, answerAt,
                    staleAtStart, http, response, invoked, clock,
                    chunk_id, serverVars >>

\* send_message statement by statement.  Its first statement reads the input field
\* and returns when the text is blank.
SendTest(t) ==
    /\ spc[t] = "idle"
    /\ IF Blank(input_field)
       THEN UNCHANGED << spc, sends, sat >>
       ELSE /\ sends < MaxSends
            /\ sends' = sends + 1
            /\ spc' = [spc EXCEPT ![t] = "tested"]
            /\ sat' = [sat EXCEPT ![t] = shown]
    /\ UNCHANGED << pc, request, futState, futVal, pending_future, result, frames,
                    messages_list, input_field, smsg, raised, awake, ready, shown,
                    inputFor, sfor, answerFor, answerAt, staleAtStart, http,
                    response, invoked, clock, chunk_id, serverVars >>

\* Its second statement reads the input field again for the message it passes to
\* _add_message, which adds the bubble and tests pending_future; when the test
\* fails, _add_message returns and send_message clears the input field.
SendAdd(t) ==
    /\ spc[t] = "tested"
    /\ messages_list' = Append(messages_list, Bubble(input_field, FALSE))
    /\ IF Deliverable(pending_future, futState)
       THEN /\ spc' = [spc EXCEPT ![t] = "set"]
            /\ smsg' = [smsg EXCEPT ![t] = input_field]
            /\ sfor' = [sfor EXCEPT ![t] = inputFor]
            /\ UNCHANGED << input_field, sat >>
       ELSE /\ spc' = [spc EXCEPT ![t] = "idle"]
            /\ sat' = [sat EXCEPT ![t] = NoReq]
            /\ input_field' = << >>
            /\ UNCHANGED << smsg, sfor >>
    /\ UNCHANGED << pc, request, futState, futVal, pending_future, result, frames,
                    raised, sends, awake, ready, shown, inputFor, answerFor, answerAt,
                    staleAtStart, http, response, invoked, clock,
                    chunk_id, serverVars >>

\* self.pending_future.set_result(message), then the rest of send_message.
\* pending_future is read again here.  Future.set_result raises InvalidStateError
\* when the future is done; otherwise it stores the result and queues the waiting
\* handler's wake-up with call_soon, which does not wake a loop blocked in select.
SendSet(t) ==
    /\ spc[t] = "set"
    /\ spc' = [spc EXCEPT ![t] = "idle"]
    /\ smsg' = [smsg EXCEPT ![t] = << >>]
    /\ sfor' = [sfor EXCEPT ![t] = NoReq]
    /\ sat' = [sat EXCEPT ![t] = NoReq]
    /\ LET f == pending_future
       IN  IF futState[f] = "pending"
           THEN /\ futState' = [futState EXCEPT ![f] = "resolved"]
                /\ futVal' = [futVal EXCEPT ![f] = Some(smsg[t])]
                /\ ready' = ready \cup {f}
                /\ answerFor' = [answerFor EXCEPT ![f] = sfor[t]]
                /\ answerAt' = [answerAt EXCEPT ![f] = sat[t]]
                /\ input_field' = << >>
                /\ UNCHANGED raised
           ELSE /\ raised' = futState[f]
                /\ UNCHANGED << futState, futVal, ready, answerFor, answerAt,
                                input_field >>
    /\ UNCHANGED << pc, request, pending_future, result, frames, messages_list,
                    sends, awake, shown, inputFor, staleAtStart, http, response,
                    invoked, clock,
                    chunk_id, serverVars >>

\* ------------------------------------------------------------ server lifecycle

\* Thread.is_alive(): the thread runs uvicorn's Server.run(), which starts up,
\* serves until should_exit is seen, shuts down and returns
IsAlive(th) == th \in {"starting", "serving"}

\* `self._thread and self._thread.is_alive()`
ThreadAlive(i) == thread[i] # NoThread /\ IsAlive(threads[i][thread[i]])

\* variant for C21: start() creates its thread whatever _thread is
StartAlways(i) == FALSE

\* the test at the top of start(): return when the listener thread is alive
StartReturns(i) == ThreadAlive(i)

\* FastAPIServer.start(): unless the thread is alive, a daemon thread is created,
\* stored in _thread and started
start(i) ==
    /\ start_calls' = [start_calls EXCEPT ![i] = @ + 1]
    /\ IF StartReturns(i)
       THEN UNCHANGED << thread, threads >>
       ELSE /\ threads' = [threads EXCEPT ![i] = Append(@, "starting")]
            /\ thread' = [thread EXCEPT ![i] = Len(threads[i]) + 1]

\* the owner of a server calls start()
CallStart(i) ==
    /\ joining = NoServer
    /\ i <= made
    /\ start_calls[i] < MaxCalls
    /\ StartReturns(i) \/ Len(threads[i]) < MaxThreads
    /\ start(i)
    /\ UNCHANGED << chatVars, clock, made, started, should_exit, api_server,
                    listen_button, disabled, joining, warned, escaped, stop_calls >>

\* FastAPIServer.stop() up to its join: should_exit is set when the server has
\* started, and the caller joins the thread when it is alive
stop(i) ==
    /\ stop_calls' = [stop_calls EXCEPT ![i] = @ + 1]
    /\ should_exit' = [should_exit EXCEPT ![i] = IF started[i] THEN TRUE ELSE @]
    /\ joining' = IF ThreadAlive(i) THEN i ELSE NoServer

\* the owner of a server calls stop()
CallStop(i) ==
    /\ joining = NoServer
    /\ i <= made
    /\ stop_calls[i] < MaxCalls
    /\ stop(i)
    /\ UNCHANGED << chatVars, clock, made, thread, threads, started, api_server,
                    listen_button, disabled, warned, escaped, start_calls >>

\* variant for C23: the thread that outlived the join is sent an exception with
\* Thread.raise_exception, which Thread does not have
StillAliveRaises == [warned |-> TRUE, escaped |-> "AttributeError"]

\* what stop() does about a thread that is alive after the join: a warning
StillAlive == [warned |-> TRUE, escaped |-> "none"]

\* _thread.join(timeout) returns, because the thread has exited or because the
\* timeout has passed, and stop() ends; toggle_server then enables its button
StopJoin ==
    /\ joining # NoServer
    /\ joining' = NoServer
    /\ IF ThreadAlive(joining)
       THEN /\ warned' = [warned EXCEPT ![joining] = StillAlive.warned]
            /\ escaped' = StillAlive.escaped
       ELSE UNCHANGED << warned, escaped >>
    /\ disabled' = IF escaped' = "none" THEN FALSE ELSE disabled
    /\ UNCHANGED << chatVars, clock, made, thread, threads, started, should_exit,
                    api_server, listen_button, start_calls, stop_calls >>

\* ChatView.toggle_server, the button's click handler.  STOPPED: a FastAPIServer is
\* constructed for the port in port_field and started; int() of a port_field that
\* holds no number raises and leaves the button disabled.  Otherwise the server in
\* api_server is stopped; the handler goes on when stop() has returned.
toggle_server ==
    /\ ~disabled
    /\ joining = NoServer
    /\ IF listen_button = "STOPPED"
       THEN /\ listen_button' = "RUNNING"
            /\ \E port_is_number \in BOOLEAN :
                  IF port_is_number
                  THEN /\ made < MaxServers
                       /\ made' = made + 1
                       /\ api_server' = made + 1
                       /\ start(made + 1)
                       /\ disabled' = FALSE
                  ELSE /\ disabled' = TRUE
                       /\ UNCHANGED << made, api_server, thread, threads,
                                       start_calls >>
            /\ UNCHANGED << should_exit, joining, stop_calls >>
       ELSE /\ listen_button' = "STOPPED"
            /\ IF api_server # NoServer
               THEN /\ stop(api_server)
                    /\ disabled' = (joining' # NoServer)
               ELSE UNCHANGED << should_exit, joining, stop_calls, disabled >>
            /\ UNCHANGED << made, api_server, thread, threads, start_calls >>
    /\ UNCHANGED << chatVars, clock, started, warned, escaped >>

\* uvicorn's startup has bound the socket: Server.started becomes true
Startup(i) ==
    /\ \E k \in 1..Len(threads[i]) :
          /\ threads[i][k] = "starting"
          /\ threads' = [threads EXCEPT ![i][k] = "serving"]
    /\ started' = [started EXCEPT ![i] = TRUE]
    /\ UNCHANGED << chatVars, clock, made, thread, should_exit, api_server,
                    listen_button, disabled, joining, warned, escaped,
                    start_calls, stop_calls >>

\* uvicorn's startup fails (the port is taken): Server.run() exits the thread
StartupFails(i) ==
    /\ \E k \in 1..Len(threads[i]) :
          /\ threads[i][k] = "starting"
          /\ threads' = [threads EXCEPT ![i][k] = "exited"]
    /\ UNCHANGED << chatVars, clock, made, thread, started, should_exit,
                    api_server, listen_button, disabled, joining, warned, escaped,
                    start_calls, stop_calls >>

\* uvicorn's main loop sees should_exit, shuts down, and Server.run() returns
Shutdown(i) ==
    /\ should_exit[i]
    /\ \E k \in 1..Len(threads[i]) :
          /\ threads[i][k] = "serving"
          /\ threads' = [threads EXCEPT ![i][k] = "exited"]
    /\ UNCHANGED << chatVars, clock, made, thread, started, should_exit,
                    api_server, listen_button, disabled, joining, warned, escaped,
                    start_calls, stop_calls >>

\* time passes
Tick ==
    /\ clock < MaxClock
    /\ clock' = clock + 1
    /\ UNCHANGED << chatVars, serverVars >>

\* ------------------------------------------------------------ specifications

Next ==
    \/ \E r \in Requests : Arrive(r)
    \/ \E r \in Requests : chat_completions(r)
    \/ \E r \in Requests : Resume(r)
    \/ \E r \in Requests : Cancel(r)
    \/ \E r \in Requests : StreamStep(r)
    \/ LoopSleep
    \/ LoopEvent
    \/ \E v \in OperatorTexts : Type(v)
    \/ \E t \in Senders : SendCheck(t)
    \/ \E t \in Senders : SendSet(t)

Spec == Init /\ [][Next]_vars

\* What the scheduling guarantees: the event loop runs what is runnable while it is
\* awake, a started generator is driven by its own timers, and a UI thread inside
\* send_message runs on.  Clients, the operator and unrelated loop events are free.
LoopFairness ==
    /\ \A r \in Requests : WF_vars(chat_completions(r))
    /\ \A r \in Requests : WF_vars(Resume(r))
    /\ \A r \in Requests : WF_vars(StreamStep(r))
    /\ \A t \in Senders : WF_vars(SendSet(t))

LiveSpec == Init /\ [][Next]_vars /\ LoopFairness

\* stream_generator on its own: one generator, given any content up to MaxLen.
GenInit ==
    /\ \E content \in StringsUpTo(MaxLen) :
          /\ result = [r \in Requests |-> IF r = 1 THEN Some(content) ELSE None]
          /\ futVal = [r \in Requests |-> IF r = 1 THEN Some(content) ELSE None]
    /\ pc = [r \in Requests |-> IF r = 1 THEN "streaming" ELSE "idle"]
    /\ http = [r \in Requests |->
                 IF r = 1
                 THEN Some(Http("POST", <<"v1", "chat", "completions">>,
                                [messages |-> UserOnly, model |-> "human",
                                 stream |-> Some(TRUE)]))
                 ELSE None]
    /\ request = [r \in Requests |->
                    IF r = 1 THEN Some(Parsed(http[1][1].body)) ELSE None]
    /\ response = [r \in Requests |->
                     IF r = 1 THEN Some(StreamingResponse("human")) ELSE None]
    /\ invoked = [r \in Requests |-> IF r = 1 THEN <<UserOnly>> ELSE << >>]
    /\ futState = [r \in Requests |-> IF r = 1 THEN "resolved" ELSE "none"]
    /\ pending_future = 1
    /\ frames = [r \in Requests |-> << >>]
    /\ messages_list = set_message(DisplayedMessages(request[1][1].messages))
    /\ input_field = << >>
    /\ spc = [t \in Senders |-> "idle"]
    /\ smsg = [t \in Senders |-> << >>]
    /\ raised = "none"
    /\ sends = 0
    /\ awake = TRUE
    /\ ready = {}
    /\ shown = 1
    /\ inputFor = NoReq
    /\ sfor = [t \in Senders |-> NoReq]
    /\ answerFor = [r \in Requests |-> NoReq]
    /\ sat = [t \in Senders |-> NoReq]
    /\ answerAt = [r \in Requests |-> NoReq]
    /\ staleAtStart = [r \in Requests |-> {}]
    /\ chunk_id = [r \in Requests |-> None]
    /\ clock = 0
    /\ Listening

GenNext == \E r \in Requests : StreamStep(r)

GenSpec == GenInit /\ [][GenNext]_vars


\* ------------------------------------------------------------ one request on its own

\* One request of any kind is received, either while the server is idle or while
\* another request is suspended on its pending answer, and is dispatched.

Methods == {"GET", "POST", "PUT", "DELETE"}

Segs == {"", "v1", "chat", "completions", "models", "human", "gpt", "api", "tags",
         "x"}

RECURSIVE PathsOfLen(_)
PathsOfLen(k) ==
    IF k = 0 THEN {<< >>}
    ELSE {Append(path, seg) : path \in PathsOfLen(k - 1), seg \in Segs}

RECURSIVE PathsUpTo(_)
PathsUpTo(k) ==
    IF k = 1 THEN PathsOfLen(1) ELSE PathsOfLen(k) \cup PathsUpTo(k - 1)

\* every path of up to MaxSegs segments, and the longest routes with a slash added
Paths ==
    PathsUpTo(MaxSegs)
        \cup {Append(path, "") : path \in ChatPaths \cup {<<"v1", "models", "human">>}}

AudioMessages ==
    { << Msg("user", <<"text", "input_audio">>, TRUE) >>,
      << Msg("system", <<"b">>, FALSE), Msg("user", <<"input_audio">>, TRUE) >> }

ImageMessages == { << Msg("user", <<"text", "image_url">>, TRUE) >> }

Fields ==
    {"messages", "model", "stream", "store", "modalities", "response_format",
     "tool_choice", "logprobs", "top_logprobs", "n", "temperature"}

\* the values a body may give to a field
FieldValues(f) ==
    CASE f = "messages" ->
             RequestMessages \cup AudioMessages \cup ImageMessages \cup {AllRoles}
      [] f = "model" -> Models
      [] f \in {"stream", "store", "logprobs"} -> {None, Some(FALSE), Some(TRUE)}
      [] f = "modalities" ->
             {None, Some(<< >>), Some(<<"text">>), Some(<<"audio">>),
              Some(<<"text", "audio">>)}
      [] f = "response_format" ->
             {None, Some("text"), Some("json_object"), Some("json_schema")}
      [] f = "tool_choice" ->
             {None, Some(StrChoice("")), Some(StrChoice("auto")),
              Some(StrChoice("required")), Some(DictChoice({})),
              Some(DictChoice({<<"type", "function">>, <<"function", "f">>})),
              Some(DictChoice({<<"type", "allowed_tools">>}))}
      [] f \in {"top_logprobs", "n"} -> {None} \cup {Some(k) : k \in (0 - MaxN)..MaxN}
      [] f = "temperature" -> {Some(1)}

\* the smallest valid body
ValidBody == [messages |-> UserOnly, model |-> "human"]

\* ValidBody with one field set
Bodies1 == UNION {{(f :> v) @@ ValidBody : v \in FieldValues(f)} : f \in Fields}

\* ValidBody with up to two fields set
Bodies2 == UNION {{(f :> v) @@ b : v \in FieldValues(f)} : f \in Fields, b \in Bodies1}

\* bodies that lack a required field
Incomplete ==
    {[f \in DOMAIN ValidBody \ {g} |-> ValidBody[f]] : g \in RequiredFields}

ApiRequests ==
    {Http("POST", path, body) : path \in ChatPaths, body \in Bodies2 \cup Incomplete}
        \cup {Http(method, path, << >>) : method \in Methods, path \in Paths}

\* the request another client is already waiting on
WaitingRequest ==
    Http("POST", <<"v1", "chat", "completions">>, [messages |-> Mixed, model |-> "gpt"])

ApiInit ==
    \E req \in ApiRequests, busy \in BOOLEAN :
        LET waiting(r) == busy /\ r = NumRequests
        IN  /\ http = [r \in Requests |->
                         IF r = 1 THEN Some(req)
                         ELSE IF waiting(r) THEN Some(WaitingRequest) ELSE None]
            /\ pc = [r \in Requests |->
                       IF r = 1 THEN "arrived"
                       ELSE IF waiting(r) THEN "awaiting" ELSE "idle"]
            /\ request = [r \in Requests |->
                            IF waiting(r) THEN Some(Parsed(WaitingRequest.body))
                            ELSE None]
            /\ futState = [r \in Requests |-> IF waiting(r) THEN "pending" ELSE "none"]
            /\ pending_future = IF busy THEN NumRequests ELSE NoReq
            /\ shown = IF busy THEN NumRequests ELSE NoReq
            /\ messages_list =
                   IF busy THEN set_message(DisplayedMessages(WaitingRequest.body.messages))
                   ELSE << >>
            /\ invoked = [r \in Requests |->
                            IF waiting(r) THEN <<WaitingRequest.body.messages>>
                            ELSE << >>]
            /\ futVal = [r \in Requests |-> None]
            /\ result = [r \in Requests |-> None]
            /\ frames = [r \in Requests |-> << >>]
            /\ response = [r \in Requests |-> None]
            /\ input_field = << >>
            /\ spc = [t \in Senders |-> "idle"]
            /\ smsg = [t \in Senders |-> << >>]
            /\ raised = "none"
            /\ sends = 0
            /\ awake = TRUE
            /\ ready = {}
            /\ inputFor = NoReq
            /\ sfor = [t \in Senders |-> NoReq]
            /\ answerFor = [r \in Requests |-> NoReq]
            /\ sat = [t \in Senders |-> NoReq]
            /\ answerAt = [r \in Requests |-> NoReq]
            /\ staleAtStart = [r \in Requests |-> {}]
            /\ chunk_id = [r \in Requests |-> None]
            /\ clock = 0
            /\ Listening

ApiNext ==
    \/ \E r \in Requests : Respond(r)
    \/ \E r \in Requests : chat_completions(r)

ApiSpec == ApiInit /\ [][ApiNext]_vars


\* ------------------------------------------------------------ one server on its own

\* One FastAPIServer has been constructed; its owner calls start() and stop() in
\* any order, one call at a time, while its listener threads run.
ServerInit == ChatInit /\ Unstarted(1)

ServerNext ==
    \/ \E i \in Servers : CallStart(i)
    \/ \E i \in Servers : CallStop(i)
    \/ StopJoin
    \/ \E i \in Servers : Startup(i)
    \/ \E i \in Servers : StartupFails(i)
    \/ \E i \in Servers : Shutdown(i)

ServerSpec == ServerInit /\ [][ServerNext]_vars


\* ------------------------------------------------------------ the listen button

\* The operator clicks the listen button, one click at a time; every click that
\* switches on constructs a new server.
ToggleInit == ChatInit /\ Unstarted(0)

ToggleNext ==
    \/ toggle_server
    \/ StopJoin
    \/ \E i \in Servers : Startup(i)
    \/ \E i \in Servers : StartupFails(i)
    \/ \E i \in Servers : Shutdown(i)

ToggleSpec == ToggleInit /\ [][ToggleNext]_vars


\* ------------------------------------------------------------ two answered requests

\* Two requests of any kind have been received one after the other and the operator
\* has answered both; their handlers resume and respond while time passes.
Answer == <<"a", "b">>

ClockInit ==
    /\ \E req1 \in ChatRequests, req2 \in ChatRequests :
          /\ http = [r \in Requests |-> IF r = 1 THEN Some(req1) ELSE Some(req2)]
          /\ request = [r \in Requests |-> Some(Parsed(http[r][1].body))]
          /\ invoked = [r \in Requests |-> << request[r][1].messages >>]
          /\ messages_list =
                 Append(set_message(DisplayedMessages(request[NumRequests][1].messages)),
                        Bubble(Answer, FALSE))
    /\ pc = [r \in Requests |-> "awaiting"]
    /\ futState = [r \in Requests |-> "resolved"]
    /\ futVal = [r \in Requests |-> Some(Answer)]
    /\ pending_future = NumRequests
    /\ result = [r \in Requests |-> None]
    /\ frames = [r \in Requests |-> << >>]
    /\ response = [r \in Requests |-> None]
    /\ input_field = << >>
    /\ spc = [t \in Senders |-> "idle"]
    /\ smsg = [t \in Senders |-> << >>]
    /\ raised = "none"
    /\ sends = NumRequests
    /\ awake = TRUE
    /\ ready = Requests
    /\ shown = NumRequests
    /\ inputFor = NumRequests
    /\ sfor = [t \in Senders |-> NoReq]
    /\ answerFor = [r \in Requests |-> r]
    /\ sat = [t \in Senders |-> NoReq]
    /\ answerAt = [r \in Requests |-> r]
    /\ staleAtStart = [r \in Requests |-> {}]
    /\ chunk_id = [r \in Requests |-> None]
    /\ clock \in 0..1
    /\ Listening

ClockNext ==
    \/ \E r \in Requests : Resume(r)
    \/ \E r \in Requests : StreamStep(r)
    \/ Tick

ClockSpec == ClockInit /\ [][ClockNext]_vars


\* ------------------------------------------------------------ send_message by statement

\* One request of any kind is awaiting its answer; the operator types and submits,
\* send_message runs one statement at a time, and the answered request responds.
SendInit ==
    /\ \E req \in ChatRequests :
          http = [r \in Requests |-> IF r = 1 THEN Some(req) ELSE None]
    /\ request = [r \in Requests |->
                    IF r = 1 THEN Some(Parsed(http[r][1].body)) ELSE None]
    /\ invoked = [r \in Requests |->
                    IF r = 1 THEN << request[r][1].messages >> ELSE << >>]
    /\ messages_list = set_message(DisplayedMessages(request[1][1].messages))
    /\ pc = [r \in Requests |-> IF r = 1 THEN "awaiting" ELSE "idle"]
    /\ futState = [r \in Requests |-> IF r = 1 THEN "pending" ELSE "none"]
    /\ futVal = [r \in Requests |-> None]
    /\ pending_future = 1
    /\ result = [r \in Requests |-> None]
    /\ frames = [r \in Requests |-> << >>]
    /\ response = [r \in Requests |-> None]
    /\ input_field = << >>
    /\ spc = [t \in Senders |-> "idle"]
    /\ smsg = [t \in Senders |-> << >>]
    /\ raised = "none"
    /\ sends = 0
    /\ awake = TRUE
    /\ ready = {}
    /\ shown = 1
    /\ inputFor = NoReq
    /\ sfor = [t \in Senders |-> NoReq]
    /\ answerFor = [r \in Requests |-> NoReq]
    /\ sat = [t \in Senders |-> NoReq]
    /\ answerAt = [r \in Requests |-> NoReq]
    /\ staleAtStart = [r \in Requests |-> {}]
    /\ chunk_id = [r \in Requests |-> None]
    /\ clock = 0
    /\ Listening

SendNext ==
    \/ \E v \in OperatorTexts : Type(v)
    \/ \E t \in Senders : SendTest(t)
    \/ \E t \in Senders : SendAdd(t)
    \/ \E t \in Senders : SendSet(t)
    \/ \E r \in Requests : Resume(r)
    \/ \E r \in Requests : StreamStep(r)

SendSpec == SendInit /\ [][SendNext]_vars


\* ------------------------------------------------------------ properties

\* C1: an operator's answer is returned only by the request that was awaiting it:
\* a request that has its answer got one submitted while that request was the one
\* displayed for answering, and no suspended request is stranded with a pending
\* future that pending_future no longer refers to (so that no submission can ever
\* reach it) because another request started.
C1_AnswerReachesItsRequest ==
    /\ \A r \in Requests : result[r] # None => answerAt[r] = r
    /\ \A r \in Requests :
          (pc[r] = "awaiting" /\ futState[r] = "pending") => pending_future = r

\* C2: while a request is suspended on its pending future, no step replaces that
\* future in pending_future.
C2_SlotNotReplaced ==
    [][\A r \in Requests :
          (pending_future = r /\ pc[r] = "awaiting" /\ futState[r] = "pending")
             => pending_future' = r]_vars

\* C3: at most one handler is suspended on an unresolved pending answer.
C3_AtMostOneActive ==
    Cardinality({r \in Requests : pc[r] = "awaiting" /\ futState[r] = "pending"}) <= 1

\* C4: a pending answer is fulfilled at most once: no submission raises because
\* the pending answer is already resolved, and the value a request receives is the
\* one first stored in its future.
C4_FulfilledAtMostOnce ==
    /\ raised # "resolved"
    /\ \A r \in Requests : result[r] # None => result[r] = futVal[r]

\* C5: after request A was cancelled and request B began, an answer the operator
\* composed for A neither raises nor is delivered to B.
C5_StaleAnswerLeavesNextRequest ==
    \A b \in Requests : \A a \in staleAtStart[b] :
        /\ raised # "cancelled"
        /\ futState[b] = "resolved" => answerFor[b] # a

\* C6: every request that is awaiting its answer eventually leaves that state,
\* whether or not the operator ever submits.
C6_AwaitingEventuallyLeaves ==
    \A r \in Requests : (pc[r] = "awaiting") ~> (pc[r] # "awaiting")

C8_CancelledLeavesNothingPending ==
    /\ [](\A r \in Requests :
             pc[r] = "cancelled" =>
                (futState[r] # "pending" /\ result[r] = None /\ r \notin ready))
    /\ [][\A r \in Requests :
             pc[r] = "cancelled" =>
                (pc'[r] = "cancelled" /\ futState'[r] = futState[r]
                   /\ futVal'[r] = futVal[r])]_vars

\* a request was cancelled and is still the one pending_future refers to, and a
\* submission made after the cancellation has added its bubble and returned
C8_Witness ==
    \E r \in Requests :
        /\ pc[r] = "cancelled"
        /\ futState[r] = "cancelled"
        /\ pending_future = r
        /\ raised = "none"
        /\ \A t \in Senders : spc[t] = "idle"
        /\ Len(messages_list) > Len(DisplayedMessages(request[r][1].messages))
        /\ ~messages_list[Len(messages_list)].is_user

\* what a client reads out of one frame: the content increment of its delta
DeltaContent(frame) ==
    IF /\ frame.kind = "json"
       /\ "delta" \in DOMAIN frame.choice
       /\ "content" \in DOMAIN frame.choice.delta
    THEN frame.choice.delta.content
    ELSE << >>

RECURSIVE ConcatDeltas(_)
ConcatDeltas(fs) ==
    IF fs = << >> THEN << >> ELSE DeltaContent(Head(fs)) \o ConcatDeltas(Tail(fs))

Streaming(r) ==
    request[r] # None /\ Truthy(request[r][1].stream) /\ result[r] # None

\* C9: the content deltas of the frames emitted so far, concatenated in emission
\* order, are a prefix of the answer, and the whole answer once the stream is done.
C9_StreamRoundTrip ==
    \A r \in Requests :
        Streaming(r) =>
            LET content == result[r][1]
                got == ConcatDeltas(frames[r])
            IN  /\ Len(got) <= Len(content)
                /\ got = SubSeq(content, 1, Len(got))
                /\ pc[r] = "done" => got = content

\* a finished stream of an answer with two different characters
C9_Witness ==
    \E r \in Requests :
        /\ Streaming(r)
        /\ pc[r] = "done"
        /\ Len(result[r][1]) >= 2
        /\ result[r][1][1] # result[r][1][2]
        /\ Len(frames[r]) > 2

IsContentChunk(frame) ==
    /\ frame.kind = "json"
    /\ "finish_reason" \notin DOMAIN frame.choice
    /\ "content" \in DOMAIN frame.choice.delta
    /\ Len(frame.choice.delta.content) = 1

IsFinishChunk(frame) ==
    /\ frame.kind = "json"
    /\ "finish_reason" \in DOMAIN frame.choice
    /\ frame.choice.finish_reason = "stop"
    /\ DOMAIN frame.choice.delta = {}

\* C10: for an answer of k characters the frames emitted are, in order, k content
\* chunks without finish_reason, one chunk with finish_reason "stop" and an empty
\* delta, and the literal [DONE]; the stream is done exactly when all k + 2 are out.
C10_StreamShape ==
    \A r \in Requests :
        Streaming(r) =>
            LET k == Len(result[r][1])
                fs == frames[r]
            IN  /\ Len(fs) <= k + 2
                /\ \A i \in 1..Len(fs) :
                      /\ i <= k => IsContentChunk(fs[i])
                      /\ i = k + 1 => IsFinishChunk(fs[i])
                      /\ i = k + 2 => fs[i] = DoneFrame
                /\ pc[r] = "done" <=> Len(fs) = k + 2

\* a finished stream of a two-character answer
C10_Witness ==
    \E r \in Requests :
        /\ Streaming(r)
        /\ pc[r] = "done"
        /\ Len(result[r][1]) = 2
        /\ Len(frames[r]) = 4

\* the role a client reads out of one frame, if the frame carries one
CarriesRole(frame) ==
    /\ frame.kind = "json"
    /\ "role" \in DOMAIN frame.choice.delta

\* C11 as stated: in every streaming response, whatever the answer (the empty
\* string included), the first frame emitted carries role "assistant" together
\* with the first content unit, and no later frame carries a role.
C11_FirstFrameCarriesRole ==
    \A r \in Requests :
        (Streaming(r) /\ frames[r] # << >>) =>
            LET content == result[r][1]
                fs == frames[r]
            IN  /\ CarriesRole(fs[1])
                /\ fs[1].choice.delta.role = "assistant"
                /\ content # << >> => DeltaContent(fs[1]) = <<content[1]>>
                /\ \A i \in 2..Len(fs) : ~CarriesRole(fs[i])

\* C11 amended: for a non-empty answer the first frame carries role "assistant"
\* together with the first content unit and no later frame carries a role; for the
\* empty answer the first frame is the finish chunk and no frame carries a role.
C11_RoleOnlyOnFirstContentChunk ==
    \A r \in Requests :
        Streaming(r) =>
            LET content == result[r][1]
                fs == frames[r]
            IN  \A i \in 1..Len(fs) :
                    /\ CarriesRole(fs[i]) <=> (i = 1 /\ content # << >>)
                    /\ CarriesRole(fs[i]) =>
                          /\ fs[i].choice.delta.role = "assistant"
                          /\ DeltaContent(fs[i]) = <<content[1]>>
                    /\ (i = 1 /\ content = << >>) => IsFinishChunk(fs[i])

\* a finished stream of an answer of at least two characters: the first frame has
\* the role, the second is a content chunk without one
C11_Witness ==
    \E r \in Requests :
        /\ Streaming(r)
        /\ pc[r] = "done"
        /\ Len(result[r][1]) >= 2
        /\ CarriesRole(frames[r][1])
        /\ IsContentChunk(frames[r][2])
        /\ ~CarriesRole(frames[r][2])

\* r has been answered without streaming
AnsweredInOne(r) ==
    request[r] # None /\ ~Truthy(request[r][1].stream) /\ pc[r] = "done"

\* C12: a valid chat request that does not stream (stream false or absent) gets one
\* chat.completion object with exactly one choice, whose finish_reason is "stop",
\* whose message has role "assistant" and the collaborator's answer as content,
\* whose model is the request's model, and whose usage counters are all zero.
C12_NonStreamingResponse ==
    \A r \in Requests :
        AnsweredInOne(r) =>
            /\ response[r] # None
            /\ frames[r] = << >>
            /\ LET resp == response[r][1]
                   body == resp.body
               IN  /\ resp.status = 200
                   /\ resp.kind = "json"
                   /\ body.object = "chat.completion"
                   /\ Len(body.choices) = 1
                   /\ body.choices[1].finish_reason = "stop"
                   /\ body.choices[1].message.role = "assistant"
                   /\ body.choices[1].message.content = result[r]
                   /\ body.model = http[r][1].body.model
                   /\ body.usage.completion_tokens = 0
                   /\ body.usage.prompt_tokens = 0
                   /\ body.usage.total_tokens = 0

\* a request on model "gpt" was answered in one piece with a non-empty answer
C12_Witness ==
    \E r \in Requests :
        /\ AnsweredInOne(r)
        /\ http[r][1].body.model = "gpt"
        /\ response[r] # None
        /\ result[r] # None
        /\ Len(result[r][1]) = 2

\* the seven capabilities the validator refuses
Capabilities ==
    {"modalities", "store", "response_format", "tool_choice", "input_audio",
     "logprobs", "n"}

\* the bodies that differ from ValidBody in one field and ask for capability c
Asking(c) ==
    CASE c = "modalities" ->
             {("modalities" :> Some(m)) @@ ValidBody :
                  m \in {<<"audio">>, <<"text", "audio">>}}
      [] c = "store" -> {("store" :> Some(TRUE)) @@ ValidBody}
      [] c = "response_format" ->
             {("response_format" :> Some(t)) @@ ValidBody :
                  t \in {"json_object", "json_schema"}}
      [] c = "tool_choice" ->
             {("tool_choice" :> Some(t)) @@ ValidBody :
                  t \in {StrChoice("required"),
                         DictChoice({<<"type", "function">>, <<"function", "f">>})}}
      [] c = "input_audio" -> {("messages" :> ms) @@ ValidBody : ms \in AudioMessages}
      [] c = "logprobs" -> {("logprobs" :> Some(TRUE)) @@ ValidBody}
      [] c = "n" -> {("n" :> Some(2)) @@ ValidBody}

\* the words by which an error message names capability c
NamesOf(c) ==
    CASE c = "modalities" -> {"modality"}
      [] c = "store" -> {"'store=True'."}
      [] c = "response_format" -> {"response_format"}
      [] c = "tool_choice" -> {"tool_choice", "tool"}
      [] c = "input_audio" -> {"audio"}
      [] c = "logprobs" -> {"'logprobs'."}
      [] c = "n" -> {"'n"}

\* the error messages validation gives the bodies asking for c alone
ErrorsOf(c) == {validate_capabilities(Parsed(b)) : b \in Asking(c)}

IsChatPost(req) == req.method = "POST" /\ req.path \in ChatPaths

\* the validator's message inside a 422 response
RejectionOf(resp) ==
    LET msg == resp.body.detail[1].msg IN SubSeq(msg, 3, Len(msg))

\* C13: a request that differs from a valid one only by asking for one of the seven
\* capabilities is rejected with that capability's error; the messages of different
\* capabilities differ, and each names its own capability.
C13_EachCapabilityRejected ==
    \A r \in Requests : \A c \in Capabilities :
        (/\ http[r] # None
         /\ IsChatPost(http[r][1])
         /\ http[r][1].body \in Asking(c)
         /\ pc[r] # "arrived")
           => /\ pc[r] = "done"
              /\ response[r][1].status = 422
              /\ LET e == RejectionOf(response[r][1])
                 IN  /\ \E i \in 1..Len(e) : e[i] \in NamesOf(c)
                     /\ \A d \in Capabilities \ {c} : Some(e) \notin ErrorsOf(d)

\* a request asking only for input audio was rejected with the audio message
C13_Witness ==
    \E r \in Requests :
        /\ http[r] # None
        /\ IsChatPost(http[r][1])
        /\ http[r][1].body \in Asking("input_audio")
        /\ pc[r] = "done"
        /\ response[r][1].status = 422
        /\ RejectionOf(response[r][1]) = InputAudioError

\* C14: a chat request that sets logprobs to true or supplies a top_logprobs value,
\* whatever the value, is rejected by validation.
C14_LogprobsRejected ==
    \A r \in Requests :
        (/\ http[r] # None
         /\ IsChatPost(http[r][1])
         /\ Parses(http[r][1].body)
         /\ \/ Truthy(Parsed(http[r][1].body).logprobs)
            \/ Parsed(http[r][1].body).top_logprobs # None
         /\ pc[r] # "arrived")
           => /\ pc[r] = "done"
              /\ response[r][1].status = 422

\* the body without its n field
WithoutN(body) == [f \in DOMAIN body \ {"n"} |-> body[f]]

\* C15: with all other fields valid, a chat request is accepted exactly when n is
\* absent, null or at most 1, and rejected with the n error exactly when n > 1.
C15_NRule ==
    \A r \in Requests :
        (/\ http[r] # None
         /\ IsChatPost(http[r][1])
         /\ Parses(http[r][1].body)
         /\ validate_capabilities(Parsed(WithoutN(http[r][1].body))) = None
         /\ pc[r] # "arrived")
           => LET body == http[r][1].body
                  small == \/ "n" \notin DOMAIN body
                           \/ body["n"] = None
                           \/ body["n"][1] <= 1
              IN  /\ small <=> pc[r] = "awaiting"
                  /\ ~small <=> (/\ pc[r] = "done"
                                 /\ response[r][1].status = 422
                                 /\ RejectionOf(response[r][1]) = NError)

\* a request with a negative n was accepted and is awaiting its answer
C15_Witness ==
    \E r \in Requests :
        /\ http[r] # None
        /\ IsChatPost(http[r][1])
        /\ "n" \in DOMAIN http[r][1].body
        /\ http[r][1].body["n"] # None
        /\ http[r][1].body["n"][1] < 0
        /\ pc[r] = "awaiting"
        /\ pending_future = r

\* the chat request fails validation
FailsValidation(req) ==
    /\ IsChatPost(req)
    /\ \/ ~Parses(req.body)
       \/ validate_capabilities(Parsed(req.body)) # None

\* C16: the step that disposes of a chat request failing validation does not invoke
\* on_message_received, leaves pending_future, its future and the displayed
\* conversation as they were, and answers with a 4xx status.
C16_InvalidNeverReachesRendezvous ==
    [][\A r \in Requests :
          (/\ pc[r] = "arrived"
           /\ FailsValidation(http[r][1])
           /\ pc'[r] # "arrived")
             => /\ invoked' = invoked
                /\ pending_future' = pending_future
                /\ futState' = futState
                /\ messages_list' = messages_list
                /\ shown' = shown
                /\ pc'[r] = "done"
                /\ response'[r] # None
                /\ response'[r][1].status \in 400..499]_vars

\* a request asking for stored output was refused while another request was
\* suspended on its pending answer, which is still the pending one
C16_Witness ==
    \E r \in Requests :
        /\ http[r] # None
        /\ FailsValidation(http[r][1])
        /\ Parses(http[r][1].body)
        /\ Truthy(Parsed(http[r][1].body).store)
        /\ pc[r] = "done"
        /\ response[r][1].status = 422
        /\ pending_future \notin {NoReq, r}
        /\ futState[pending_future] = "pending"
        /\ messages_list # << >>

\* the handler of r has been started
Handled(r) == pc[r] \in {"awaiting", "streaming", "done", "cancelled"}

\* C17: for a valid chat request on either path, on_message_received is invoked
\* exactly once, with the request's messages, and a response or a frame exists only
\* once that invocation has returned the answer.
C17_CollaboratorInvokedOnce ==
    \A r \in Requests :
        /\ Len(invoked[r]) <= 1
        /\ Handled(r) => invoked[r] = <<http[r][1].body.messages>>
        /\ (response[r] # None \/ frames[r] # << >>) =>
              /\ Len(invoked[r]) = 1
              /\ result[r] # None
              /\ result[r] = futVal[r]

\* a request posted to the alias path with three messages got its response
C17_Witness ==
    \E r \in Requests :
        /\ http[r] # None
        /\ http[r][1].path = <<"chat", "completions">>
        /\ Len(http[r][1].body.messages) = 3
        /\ pc[r] = "done"
        /\ response[r] # None
        /\ Len(invoked[r]) = 1

\* r is a GET of /v1/models/{id} that has been answered
ModelLookup(r) ==
    /\ http[r] # None
    /\ http[r][1].method = "GET"
    /\ Len(http[r][1].path) = 3
    /\ SubSeq(http[r][1].path, 1, 2) = <<"v1", "models">>
    /\ http[r][1].path[3] # ""
    /\ response[r] # None

\* C18: GET /v1/models/human returns the synthetic model descriptor, not an error.
C18_HumanModelReturned ==
    \A r \in Requests :
        (ModelLookup(r) /\ http[r][1].path[3] = "human") =>
            /\ response[r][1].status = 200
            /\ response[r][1].body = HumanModel

\* C19: GET /v1/models/{id} for any other id returns 404 with the envelope whose
\* error.type is "invalid_request_error" and error.code is "model_not_found".
C19_ModelNotFoundEnvelope ==
    \A r \in Requests :
        (ModelLookup(r) /\ http[r][1].path[3] # "human") =>
            /\ response[r][1].status = 404
            /\ DOMAIN response[r][1].body = {"error"}
            /\ response[r][1].body.error.type = "invalid_request_error"
            /\ response[r][1].body.error.code = "model_not_found"

\* no registered route has this method and path
Unmatched(req) ==
    \A i \in 1..Len(Routes) :
        ~(PathMatches(Routes[i].path, req.path) /\ req.method \in Routes[i].methods)

\* no registered route has this path, with its trailing slash as given or toggled
UnknownPath(req) ==
    \A i \in 1..Len(Routes) :
        /\ ~PathMatches(Routes[i].path, req.path)
        /\ ~PathMatches(Routes[i].path, RedirectPath(req.path))

\* C20 as stated: every request whose method and path match no registered route is
\* answered 404 with the body {error: "Not Found", message: ...}.
C20_UnmatchedGets404 ==
    \A r \in Requests :
        (http[r] # None /\ Unmatched(http[r][1]) /\ response[r] # None) =>
            /\ response[r][1].status = 404
            /\ response[r][1].body.error = "Not Found"

\* C20 amended: a request whose path matches no registered route, also with its
\* trailing slash toggled, is answered 404 with the body {error: "Not Found",
\* message: ...}; a request whose path is registered for other methods only is
\* answered 405, and one whose path is registered only with its trailing slash
\* toggled is redirected (307); and the step that answers a request matching no
\* route does not invoke on_message_received or change pending_future, its future
\* or the display.
C20_UnknownPathGets404 ==
    [][\A r \in Requests :
          (/\ pc[r] = "arrived"
           /\ Unmatched(http[r][1])
           /\ pc'[r] # "arrived")
             => /\ invoked' = invoked
                /\ pending_future' = pending_future
                /\ futState' = futState
                /\ messages_list' = messages_list
                /\ pc'[r] = "done"
                /\ response'[r] # None
                /\ UnknownPath(http[r][1]) =>
                      /\ response'[r][1].status = 404
                      /\ DOMAIN response'[r][1].body = {"error", "message"}
                      /\ response'[r][1].body.error = "Not Found"
                /\ (\E i \in 1..Len(Routes) :
                       PathMatches(Routes[i].path, http[r][1].path)) =>
                      response'[r][1].status = 405
                /\ (/\ ~UnknownPath(http[r][1])
                    /\ \A i \in 1..Len(Routes) :
                          ~PathMatches(Routes[i].path, http[r][1].path)) =>
                      response'[r][1].status = 307]_vars

\* a request for an unknown path was answered with the Not Found body while another
\* request was suspended on its pending answer
C20_Witness ==
    \E r \in Requests :
        /\ http[r] # None
        /\ UnknownPath(http[r][1])
        /\ http[r][1].method = "POST"
        /\ pc[r] = "done"
        /\ response[r][1] = not_found_handler
        /\ pending_future \notin {NoReq, r}
        /\ futState[pending_future] = "pending"

\* C24: once a request has consumed its answer (on_message_received has returned),
\* pending_future no longer holds that request's future: the slot is empty until
\* the next request puts its own future there.
C24_SlotClearedAfterConsume ==
    \A r \in Requests : result[r] # None => pending_future # r

\* the listener threads of server i that are alive
AliveThreads(i) == {k \in 1..Len(threads[i]) : IsAlive(threads[i][k])}

\* C21: start() on a server whose listener thread is alive creates no thread and
\* changes nothing of the server, and whatever the sequence of start() and stop()
\* calls, a server never has two listener threads alive.
C21_StartIdempotent ==
    /\ [](\A i \in Servers : Cardinality(AliveThreads(i)) <= 1)
    /\ [][\A i \in Servers :
            (ThreadAlive(i) /\ start_calls'[i] > start_calls[i])
                => /\ thread' = thread
                   /\ threads' = threads
                   /\ started' = started
                   /\ should_exit' = should_exit]_vars

C21_Witness ==
    \E i \in Servers :
        /\ start_calls[i] >= 2
        /\ Len(threads[i]) = 1
        /\ ThreadAlive(i)

\* C22: whenever stop() finds the listener thread alive and waits for it, it has
\* set the server's exit flag, also when the listener has not finished starting.
C22_StopRequestsShutdown ==
    \A i \in Servers : joining = i => should_exit[i]

\* C23: no exception leaves stop(), whatever the state of the server it is called
\* in; when the thread is alive after the join, stop() logs a warning and returns,
\* and the thread stays as it is.
C23_StopNeverRaises ==
    /\ [](escaped = "none")
    /\ [][(joining # NoServer /\ joining' = NoServer /\ ThreadAlive(joining))
            => /\ warned'[joining]
               /\ thread' = thread
               /\ threads' = threads]_vars

C23_Witness ==
    \E i \in Servers :
        /\ stop_calls[i] >= 2
        /\ warned[i]
        /\ ThreadAlive(i)
        /\ joining = NoServer

\* the id a request's completion carries: of its chunks when it streams, of its
\* response body otherwise
CompletionId(r) ==
    IF chunk_id[r] # None THEN chunk_id[r]
    ELSE IF response[r] # None /\ response[r][1].kind = "json"
         THEN Some(response[r][1].body.id)
         ELSE None

\* C26: the completions of two different requests never carry the same id.
C26_IdsUnique ==
    \A r1 \in Requests, r2 \in Requests :
        (r1 # r2 /\ CompletionId(r1) # None /\ CompletionId(r2) # None)
            => CompletionId(r1) # CompletionId(r2)

\* C29: whatever the operator's clicks on the listen button, at most one listener
\* thread is alive at a time.
C29_OneListenerAlive ==
    Cardinality({i \in Servers : AliveThreads(i) # {}}) <= 1

\* prefix of a sequence
IsPrefix(s, t) == Len(s) <= Len(t) /\ s = SubSeq(t, 1, Len(s))

\* C25: frames exist only for a request whose answer was resolved and awaited, what
\* they carry is a prefix of the value its future was resolved with, a resolved
\* value never changes, and frames once emitted stay as they are.
C25_AnswerDecidedBeforeStreaming ==
    /\ [](\A r \in Requests :
             frames[r] # << >> =>
                /\ pc[r] \in {"streaming", "done"}
                /\ futState[r] = "resolved"
                /\ IsPrefix(ConcatDeltas(frames[r]), futVal[r][1]))
    /\ [][\A r \in Requests :
             /\ futState[r] = "resolved" =>
                   (futState'[r] = "resolved" /\ futVal'[r] = futVal[r])
             /\ IsPrefix(frames[r], frames'[r])]_vars

\* a stream that went on to its end after a later request was given another answer
C25_Witness ==
    \E r \in Requests, r2 \in Requests :
        /\ r # r2
        /\ Streaming(r)
        /\ pc[r] = "done"
        /\ pending_future = r2
        /\ futState[r2] = "resolved"
        /\ futVal[r2] # futVal[r]

\* a text with a character that is not whitespace
HasInk(s) == \E i \in 1..Len(s) : s[i] \notin Whitespace

\* C27: every value a future was resolved with has a character that is not
\* whitespace, and a finished stream has a content chunk.
C27_NoBlankAnswer ==
    \A r \in Requests :
        /\ futVal[r] # None => HasInk(futVal[r][1])
        /\ (Streaming(r) /\ pc[r] = "done") =>
              \E i \in 1..Len(frames[r]) : IsContentChunk(frames[r][i])

\* no request is awaiting an answer: pending_future is None or its future is done
NothingAwaited == pending_future = NoReq \/ futState[pending_future] # "pending"

\* C28: while no request is awaiting and no delivery is under way, no step starts a
\* delivery, stores a value in a future, resolves one or raises; and a request that
\* begins gets a future of its own that is pending and holds no value.
C28_IdleSubmissionNotBuffered ==
    /\ [][(NothingAwaited /\ \A t \in Senders : spc[t] = "idle") =>
             /\ \A t \in Senders : spc'[t] = "idle"
             /\ futVal' = futVal
             /\ \A r \in Requests :
                   futState'[r] = "resolved" => futState[r] = "resolved"
             /\ raised' = raised]_vars
    /\ [][\A r \in Requests :
             (pc[r] = "arrived" /\ pc'[r] = "awaiting") =>
                /\ pending_future' = r
                /\ futState'[r] = "pending"
                /\ futVal'[r] = None
                /\ r \notin ready']_vars

\* after a submission that found no request at all, the first request waits
C28_Witness ==
    \E r \in Requests :
        /\ sends >= 1
        /\ \A t \in Senders : spc[t] = "idle"
        /\ pc[r] = "awaiting"
        /\ futState[r] = "pending"
        /\ futVal[r] = None
        /\ \A r2 \in Requests \ {r} : pc[r2] = "idle"

\* the messages the operator is shown
Shown(m) ==
    /\ m.content # << >>
    /\ \/ m.role \in {"system", "developer", "assistant"}
       \/ m.role = "user" /\ ~m.parts

\* C30: when a request begins, the rows of the display are exactly the request's
\* messages that are shown, in their order, whatever was displayed before.
C30_DisplayedConversation ==
    [][\A r \in Requests :
          (pc[r] = "arrived" /\ pc'[r] = "awaiting") =>
             LET ms == SelectSeq(request'[r][1].messages, Shown)
             IN  /\ Len(messages_list') = Len(ms)
                 /\ \A i \in 1..Len(ms) :
                       /\ messages_list'[i].text = ms[i].content
                       /\ messages_list'[i].is_user = (ms[i].role = "user")]_vars

\* a conversation with every role began while another one was displayed
C30_Witness ==
    \E r \in Requests :
        /\ pc[r] = "awaiting"
        /\ request[r][1].messages = AllRoles
        /\ pending_future = r
        /\ Len(messages_list) = 3
        /\ \E r2 \in Requests \ {r} : pc[r2] = "awaiting"

============================================================================
